---- MODULE Spec2Model ----
(***************************************************************************)
(* Model of skills/principal-data-engineer/scripts/validate_dag_integrity  *)
(* .py: the per-file rule checker check_file() and the driver main().      *)
(*                                                                         *)
(* A source file is a sequence of lines; every line is blank, a line that  *)
(* violates the grammar, or one top-level statement (compound statements   *)
(* are written on one line, "def f(): g()", so a nested statement shares   *)
(* the line of the statement that contains it).  Log output is kept per    *)
(* step: emitted is what the last step that logged wrote to the sink.      *)
(*                                                                         *)
(* Two specifications: SpecCheck applies check_file to one file drawn from *)
(* the whole of FileStates; Spec runs main(), whose files are read when    *)
(* check_file is called on them and are drawn from DriverFiles.            *)
(***************************************************************************)
EXTENDS Integers, Sequences, FiniteSets

\* Bounds of the model.
MaxLines == 2
MaxFiles == 2

VARIABLES
    pc,            \* position of main(): start, file, loop, ret, done, crashed;
                   \* of a lone check_file call: call, returned, crashed
    argc,          \* len(sys.argv)
    target,        \* what sys.argv[1] names: "file", "dir" or "missing"
    dirEntries,    \* number of *.py entries beneath target when it is a directory
    python_files,  \* main's list of discovered paths
    idx,           \* position of the for loop of main in python_files
    all_passed,    \* main's accumulator
    ret,           \* return value of main(), -1 until it returns
    raised,        \* the exception that left main(), "None" if none
    exit_status,   \* exit status of the process, -1 while it runs
    checked,       \* the paths handed to check_file, in call order
    cur,           \* the file the last check_file call was given
    issues,        \* the local list `issues` of the last check_file call
    result,        \* outcome of the last check_file call: none, True, False, raised
    emitted,       \* the log records of the last step that logged
    fsOps,         \* number of filesystem operations performed so far
    allClean,      \* every check_file call so far parsed its file and found no issue
    firstBad       \* position in checked of the first file that was not clean, 0 if none

vars == <<pc, argc, target, dirEntries, python_files, idx, all_passed, ret, raised,
          exit_status,
          checked, cur, issues, result, emitted, fsOps, allClean, firstBad>>

----------------------------------------------------------------------------
\* Syntax: values, statements, source lines.

Val(k, id) == [kind |-> k, id |-> id]
NoVal == Val("None", "")

Stmt(k, v, b) == [kind |-> k, value |-> v, body |-> b]
NoStmt == Stmt("None", NoVal, <<>>)

\* Bodies of compound statements.
PassBody == <<Stmt("Pass", NoVal, <<>>)>>
CallBody == <<Stmt("Expr", Val("Call", "g"), <<>>)>>
ForBody == <<Stmt("For", NoVal, <<>>)>>
TryBody == <<Stmt("Try", NoVal, <<>>)>>

SimpleKinds == {"Import", "ImportFrom", "AnnAssign", "AugAssign", "Delete", "Assert", "Raise"}
CompoundKinds == {"FunctionDef", "AsyncFunctionDef", "ClassDef", "With", "For", "While",
                  "Try", "If", "AsyncFor", "AsyncWith", "TryStar"}

Stmts ==
    {Stmt(k, NoVal, <<>>) : k \in SimpleKinds}
    \cup {Stmt("Assign", Val("Constant", ""), <<>>), Stmt("Assign", Val("Call", "f"), <<>>)}
    \cup {Stmt("Expr", v, <<>>) : v \in {Val("Constant", ""), Val("Call", "f"),
                                          Val("Call", "g"), Val("Name", "f")}}
    \cup {Stmt(k, NoVal, PassBody) : k \in CompoundKinds}
    \cup {Stmt(k, NoVal, CallBody) : k \in {"FunctionDef", "ClassDef", "With", "If", "For"}}
    \cup {Stmt("FunctionDef", NoVal, ForBody), Stmt("With", NoVal, TryBody)}

Line(t, s) == [t |-> t, stmt |-> s]
Lines == {Line("blank", NoStmt), Line("garbage", NoStmt)} \cup {Line("stmt", s) : s \in Stmts}

Sources == UNION {[1..n -> Lines] : n \in 0..MaxLines}

\* What a path handed to check_file can hold.
FileStates ==
    {[kind |-> "text", lines |-> s] : s \in Sources}
    \cup {[kind |-> "undecodable", lines |-> <<>>], [kind |-> "unreadable", lines |-> <<>>]}
NoFile == [kind |-> "none", lines |-> <<>>]

\* The files the driver meets: a clean statement, a flagged call, a flagged loop
\* and a line that does not parse, in any arrangement.
DriverLines ==
    {Line("garbage", NoStmt), Line("stmt", Stmt("Import", NoVal, <<>>)),
     Line("stmt", Stmt("Expr", Val("Call", "f"), <<>>)),
     Line("stmt", Stmt("For", NoVal, PassBody))}
DriverFiles ==
    {[kind |-> "text", lines |-> s] : s \in UNION {[1..n -> DriverLines] : n \in 0..MaxLines}}
    \cup {[kind |-> "undecodable", lines |-> <<>>], [kind |-> "unreadable", lines |-> <<>>]}

----------------------------------------------------------------------------
\* Log records.

Detail(n, t, k) == [lineno |-> n, tmpl |-> t, kind |-> k]
NoDetail == Detail(0, "", "")
Msg(lvl, text, path, d) == [level |-> lvl, text |-> text, path |-> path, detail |-> d]

UsageMsg == Msg("ERROR", "Usage: validate_dag_integrity.py <path_to_python_file_or_directory>",
                <<>>, NoDetail)
NotFoundMsg == Msg("ERROR", "Path not found: {}", <<0>>, NoDetail)
NoFilesMsg == Msg("WARNING", "No Python files found in {}", <<0>>, NoDetail)
SyntaxMsg(p, n) == Msg("ERROR", "Syntax error in {}: {}", <<p>>, Detail(n, "SyntaxError", ""))
HeaderMsg(p) == Msg("WARNING", "Potential issues in {}:", <<p>>, NoDetail)
IssueMsg(i) == Msg("WARNING", "  - {}", <<>>, i)
BestPracticeMsg ==
    Msg("INFO", "Airflow best practice: Avoid top-level code that connects to DBs or APIs",
        <<>>, NoDetail)
SuccessMsg(p) == Msg("SUCCESS", "{} - no obvious top-level side effects", <<p>>, NoDetail)

ExprTmpl == "Line {}: Top-level expression found. Ensure this doesn't perform I/O."
KindTmpl == "Line {}: Top-level {} found. Verify this is safe for the Scheduler."

----------------------------------------------------------------------------
\* read_text and ast.parse.

Node(s, n) ==
    [kind |-> s.kind, lineno |-> n, value |-> s.value,
     body |-> [j \in DOMAIN s.body |->
                 [kind |-> s.body[j].kind, lineno |-> n, value |-> s.body[j].value,
                  body |-> <<>>]]]

RECURSIVE NodesFrom(_, _)
NodesFrom(source, i) ==
    IF i > Len(source) THEN <<>>
    ELSE IF source[i].t = "stmt"
         THEN <<Node(source[i].stmt, i)>> \o NodesFrom(source, i + 1)
         ELSE NodesFrom(source, i + 1)

FirstGarbage(source) ==
    LET bad == {i \in DOMAIN source : source[i].t = "garbage"}
    IN  IF bad = {} THEN 0 ELSE CHOOSE i \in bad : \A j \in bad : i <= j

\* ast.parse(source): a SyntaxError at the first offending line, else the module.
ast_parse(source) ==
    IF FirstGarbage(source) # 0
    THEN [raised |-> "SyntaxError", lineno |-> FirstGarbage(source), body |-> <<>>]
    ELSE [raised |-> "None", lineno |-> 0, body |-> NodesFrom(source, 1)]

\* filepath.read_text(encoding="utf-8"): the exception it raises, "None" if it returns.
read_text_raises(file) ==
    IF file.kind = "undecodable" THEN "UnicodeDecodeError"
    ELSE IF file.kind = "unreadable" THEN "OSError"
    ELSE "None"

----------------------------------------------------------------------------
\* check_file: the rule checker.

IsInstance(node, kinds) == node.kind \in kinds

\* The five `continue` rules of the loop body.
AllowedNoDocstring(node) ==
    \/ IsInstance(node, {"Import", "ImportFrom"})
    \/ IsInstance(node, {"Assign"})
    \/ IsInstance(node, {"FunctionDef", "AsyncFunctionDef", "ClassDef"})
    \/ IsInstance(node, {"With"})

Allowed(node) ==
    \/ IsInstance(node, {"Import", "ImportFrom"})
    \/ IsInstance(node, {"Assign"})
    \/ IsInstance(node, {"FunctionDef", "AsyncFunctionDef", "ClassDef"})
    \/ (IsInstance(node, {"Expr"}) /\ IsInstance(node.value, {"Constant"}))
    \/ IsInstance(node, {"With"})

\* if isinstance(node, ast.Expr): issues.append(...)
ExprIssueCallsOnly(node) ==
    IF IsInstance(node, {"Expr"}) /\ IsInstance(node.value, {"Call"})
    THEN <<Detail(node.lineno, ExprTmpl, "")>>
    ELSE <<>>

ExprIssue(node) ==
    IF IsInstance(node, {"Expr"})
    THEN <<Detail(node.lineno, ExprTmpl, "")>>
    ELSE <<>>

\* if isinstance(node, ast.Call | ast.For | ast.While | ast.Try): issues.append(...)
ControlIssueZeroBased(node) ==
    IF IsInstance(node, {"Call", "For", "While", "Try"})
    THEN <<Detail(node.lineno - 1, KindTmpl, node.kind)>>
    ELSE <<>>

ControlIssue(node) ==
    IF IsInstance(node, {"Call", "For", "While", "Try"})
    THEN <<Detail(node.lineno, KindTmpl, node.kind)>>
    ELSE <<>>

\* One iteration of `for node in tree.body`.
NodeIssues(node) ==
    IF Allowed(node) THEN <<>> ELSE ExprIssue(node) \o ControlIssue(node)

RECURSIVE Flatten(_)
Flatten(nodes) ==
    IF nodes = <<>> THEN <<>>
    ELSE <<Head(nodes)>> \o Flatten(Head(nodes).body) \o Flatten(Tail(nodes))

\* The nodes the loop visits: tree.body, the statements in module scope.
TopLevelWalk(tree) == Flatten(tree.body)

TopLevel(tree) == tree.body

RECURSIVE CollectIssues(_)
CollectIssues(nodes) ==
    IF nodes = <<>> THEN <<>>
    ELSE NodeIssues(Head(nodes)) \o CollectIssues(Tail(nodes))

Reverse(s) == [i \in DOMAIN s |-> s[Len(s) + 1 - i]]

\* The reporting of a flagged file.
ReportReversed(filepath, found) ==
    <<HeaderMsg(filepath)>> \o [i \in DOMAIN found |-> IssueMsg(Reverse(found)[i])]
        \o <<BestPracticeMsg>>

Report(filepath, found) ==
    <<HeaderMsg(filepath)>> \o [i \in DOMAIN found |-> IssueMsg(found[i])]
        \o <<BestPracticeMsg>>

Outcome(exc, r, found, out, parsed) ==
    [raised |-> exc, ret |-> r, issues |-> found, out |-> out, parsed |-> parsed]

\* check_file(filepath) on a path that holds `file`.  Only SyntaxError is caught.
check_file(filepath, file) ==
    IF read_text_raises(file) # "None"
    THEN Outcome(read_text_raises(file), FALSE, <<>>, <<>>, FALSE)
    ELSE LET tree == ast_parse(file.lines) IN
         IF tree.raised = "SyntaxError"
         THEN Outcome("None", FALSE, <<>>, <<SyntaxMsg(filepath, tree.lineno)>>, FALSE)
         ELSE LET found == CollectIssues(TopLevel(tree)) IN
              IF found # <<>>
              THEN Outcome("None", FALSE, found, Report(filepath, found), TRUE)
              ELSE Outcome("None", TRUE, found, <<SuccessMsg(filepath)>>, TRUE)

----------------------------------------------------------------------------
\* main: the driver.

\* The branch main takes: the argument check, then is_file(), then is_dir().
BranchOfMissingAsDir(n, kind) ==
    IF n < 2 THEN "usage"
    ELSE IF kind = "file" THEN "file"
    ELSE "dir"

BranchOf(n, kind) ==
    IF n < 2 THEN "usage"
    ELSE IF kind = "file" THEN "file"
    ELSE IF kind = "dir" THEN "dir"
    ELSE "notfound"

\* list(target.rglob("*.py")): the discovered paths, numbered from 1; 0 is target itself.
rglob(n) == [i \in 1..n |-> i]

\* `if not python_files`
IsEmptyNever(files) == FALSE

IsEmpty(files) == Len(files) = 0

\* `if not check_file(py_file): all_passed = False`
AccumulateLast(acc, ok) == ok

Accumulate(acc, ok) == IF ~ok THEN FALSE ELSE acc

\* Where the loop goes after the call on python_files[i]: it has no break, so the
\* outcome of the call plays no part.
AfterCheckBreak(i, files, ok) == IF i < Len(files) /\ ok THEN "loop" ELSE "ret"

AfterCheck(i, files, ok) == IF i < Len(files) THEN "loop" ELSE "ret"

\* sys.exit(main()) when main returns v.
Return(v) ==
    /\ ret' = v
    /\ exit_status' = v
    /\ pc' = "done"

\* An exception leaves main(): sys.exit is not reached, the interpreter prints the
\* traceback and ends the process with status 1.
Uncaught(exc) ==
    /\ raised' = exc
    /\ exit_status' = 1
    /\ pc' = "crashed"

Init ==
    /\ pc = "start"
    /\ argc \in {1, 2}
    /\ target \in {"file", "dir", "missing"}
    /\ dirEntries \in 0..MaxFiles
    /\ (target # "dir" \/ argc < 2) => dirEntries = 0
    /\ argc < 2 => target = "missing"
    /\ python_files = <<>>
    /\ idx = 0
    /\ all_passed = TRUE
    /\ ret = -1
    /\ raised = "None"
    /\ exit_status = -1
    /\ checked = <<>>
    /\ cur = NoFile
    /\ issues = <<>>
    /\ result = "none"
    /\ emitted = <<>>
    /\ fsOps = 0
    /\ allClean = TRUE
    /\ firstBad = 0

\* len(sys.argv) < 2: usage, return 1.
MainUsage ==
    /\ pc = "start"
    /\ BranchOf(argc, target) = "usage"
    /\ emitted' = <<UsageMsg>>
    /\ Return(1)
    /\ UNCHANGED <<argc, target, dirEntries, python_files, idx, all_passed, raised, checked,
                   cur, issues, result, fsOps, allClean, firstBad>>

\* Neither is_file() nor is_dir(): path not found, return 1.
MainNotFound ==
    /\ pc = "start"
    /\ BranchOf(argc, target) = "notfound"
    /\ fsOps' = fsOps + 2
    /\ emitted' = <<NotFoundMsg>>
    /\ Return(1)
    /\ UNCHANGED <<argc, target, dirEntries, python_files, idx, all_passed, raised, checked,
                   cur, issues, result, allClean, firstBad>>

\* target.is_file(): on to check_file(target).
MainEnterFile ==
    /\ pc = "start"
    /\ BranchOf(argc, target) = "file"
    /\ fsOps' = fsOps + 1
    /\ pc' = "file"
    /\ UNCHANGED <<argc, target, dirEntries, python_files, idx, all_passed, ret, raised,
                   exit_status, checked, cur, issues, result, emitted, allClean, firstBad>>

\* target.is_dir() with nothing discovered: warning, return 0.
MainEmptyDir ==
    /\ pc = "start"
    /\ BranchOf(argc, target) = "dir"
    /\ IsEmpty(rglob(dirEntries))
    /\ python_files' = rglob(dirEntries)
    /\ fsOps' = fsOps + 3
    /\ emitted' = <<NoFilesMsg>>
    /\ Return(0)
    /\ UNCHANGED <<argc, target, dirEntries, idx, all_passed, raised, checked, cur, issues,
                   result, allClean, firstBad>>

\* target.is_dir() with files discovered: enter the loop (or fall through it).
MainEnterDir ==
    /\ pc = "start"
    /\ BranchOf(argc, target) = "dir"
    /\ ~IsEmpty(rglob(dirEntries))
    /\ python_files' = rglob(dirEntries)
    /\ fsOps' = fsOps + 3
    /\ idx' = 1
    /\ pc' = AfterCheck(0, python_files', TRUE)
    /\ UNCHANGED <<argc, target, dirEntries, all_passed, ret, raised, exit_status, checked,
                   cur, issues, result, emitted, allClean, firstBad>>

\* The bookkeeping common to both calls of check_file: r is the call's outcome.
Called(path, file, r) ==
    /\ checked' = Append(checked, path)
    /\ cur' = file
    /\ fsOps' = fsOps + 1
    /\ issues' = r.issues
    /\ emitted' = r.out
    /\ allClean' = (allClean /\ r.parsed /\ r.issues = <<>>)
    /\ firstBad' = IF firstBad = 0 /\ ~(r.parsed /\ r.issues = <<>>)
                   THEN Len(checked) + 1 ELSE firstBad

\* all_passed = check_file(target)
CheckTarget ==
    /\ pc = "file"
    /\ \E file \in DriverFiles :
         LET r == check_file(0, file) IN
         /\ Called(0, file, r)
         /\ \/ /\ r.raised = "None"
               /\ all_passed' = r.ret
               /\ result' = IF r.ret THEN "True" ELSE "False"
               /\ pc' = "ret"
               /\ UNCHANGED <<raised, exit_status>>
            \/ /\ r.raised # "None"
               /\ Uncaught(r.raised)
               /\ result' = "raised"
               /\ UNCHANGED all_passed
    /\ UNCHANGED <<argc, target, dirEntries, python_files, idx, ret>>

\* One iteration of `for py_file in python_files`.
CheckNext ==
    /\ pc = "loop"
    /\ \E file \in DriverFiles :
         LET r == check_file(python_files[idx], file) IN
         /\ Called(python_files[idx], file, r)
         /\ \/ /\ r.raised = "None"
               /\ all_passed' = Accumulate(all_passed, r.ret)
               /\ result' = IF r.ret THEN "True" ELSE "False"
               /\ idx' = idx + 1
               /\ pc' = AfterCheck(idx, python_files, r.ret)
               /\ UNCHANGED <<raised, exit_status>>
            \/ /\ r.raised # "None"
               /\ Uncaught(r.raised)
               /\ result' = "raised"
               /\ UNCHANGED <<all_passed, idx>>
    /\ UNCHANGED <<argc, target, dirEntries, python_files, ret>>

\* return 0 if all_passed else 1
MainReturn ==
    /\ pc = "ret"
    /\ Return(IF all_passed THEN 0 ELSE 1)
    /\ UNCHANGED <<argc, target, dirEntries, python_files, idx, all_passed, raised, checked,
                   cur, issues, result, emitted, fsOps, allClean, firstBad>>

Next ==
    \/ MainUsage
    \/ MainNotFound
    \/ MainEnterFile
    \/ MainEmptyDir
    \/ MainEnterDir
    \/ CheckTarget
    \/ CheckNext
    \/ MainReturn

Spec == Init /\ [][Next]_vars

----------------------------------------------------------------------------
\* check_file on its own, on every file of FileStates.

InitCheck ==
    /\ pc = "call"
    /\ argc = 2
    /\ target = "file"
    /\ dirEntries = 0
    /\ python_files = <<>>
    /\ idx = 0
    /\ all_passed = TRUE
    /\ ret = -1
    /\ raised = "None"
    /\ exit_status = -1
    /\ checked = <<>>
    /\ cur \in FileStates
    /\ issues = <<>>
    /\ result = "none"
    /\ emitted = <<>>
    /\ fsOps = 0
    /\ allClean = TRUE
    /\ firstBad = 0

CallCheckFile ==
    /\ pc = "call"
    /\ LET r == check_file(0, cur) IN
         /\ Called(0, cur, r)
         /\ \/ /\ r.raised = "None"
               /\ result' = IF r.ret THEN "True" ELSE "False"
               /\ pc' = "returned"
               /\ UNCHANGED raised
            \/ /\ r.raised # "None"
               /\ raised' = r.raised
               /\ result' = "raised"
               /\ pc' = "crashed"
    /\ UNCHANGED <<argc, target, dirEntries, python_files, idx, all_passed, ret,
                   exit_status>>

NextCheck == CallCheckFile

SpecCheck == InitCheck /\ [][NextCheck]_vars

----------------------------------------------------------------------------
\* The claims.  They read the source text of the file (cur.lines), not the tree:
\* the statement on line i of the source is cur.lines[i].stmt.

Parses == cur.kind = "text" /\ \A i \in DOMAIN cur.lines : cur.lines[i].t # "garbage"
StmtLines == {i \in DOMAIN cur.lines : cur.lines[i].t = "stmt"}
StmtAt(i) == cur.lines[i].stmt
IssuesAt(n) == {j \in DOMAIN issues : issues[j].lineno = n}

CleanStmt(s) ==
    \/ s.kind \in {"Import", "ImportFrom", "Assign", "FunctionDef", "AsyncFunctionDef",
                   "ClassDef", "With"}
    \/ (s.kind = "Expr" /\ s.value.kind = "Constant")
BareCall(s) == s.kind = "Expr" /\ s.value.kind = "Call"
RuleTableKinds == {"Import", "ImportFrom", "Assign", "FunctionDef", "AsyncFunctionDef",
                   "ClassDef", "Expr", "With", "Call", "For", "While", "Try"}
Ran == argc >= 2 /\ (target = "file" \/ (target = "dir" /\ dirEntries >= 1))
TimesChecked(p) == Cardinality({k \in DOMAIN checked : checked[k] = p})

\* C1: given a file, or a directory with at least one discovered file, main()
\* returns 0 if every processed file parsed and produced no issue and 1 otherwise,
\* and the process never ends with status 0 after a file that was not clean.
Inv_C1 ==
    /\ (pc = "done" /\ Ran) => /\ ret \in {0, 1}
                               /\ (ret = 0) <=> allClean
    /\ (pc \in {"done", "crashed"} /\ Ran) => /\ exit_status \in {0, 1}
                                             /\ (exit_status = 0) <=> allClean
Wit_C1 ==
    /\ pc = "done" /\ target = "dir" /\ Len(checked) >= 2
    /\ firstBad = 1 /\ result = "True" /\ ret = 1

\* C2: in directory mode, when main() returns every discovered file has been handed
\* to check_file exactly once, whether or not an earlier file was flagged or failed
\* to parse, and if some file was not clean the status is 1; at no point has a file
\* been skipped or handed over twice.
Inv_C2 ==
    /\ (pc = "done" /\ argc >= 2 /\ target = "dir" /\ dirEntries >= 1) =>
           /\ \A p \in 1..dirEntries : TimesChecked(p) = 1
           /\ Len(checked) = dirEntries
           /\ (firstBad # 0 => (ret = 1 /\ exit_status = 1))
    /\ (argc >= 2 /\ target = "dir") =>
           /\ Len(checked) <= Len(python_files)
           /\ \A k \in DOMAIN checked : checked[k] = python_files[k]
Wit_C2 ==
    /\ pc = "done" /\ target = "dir" /\ dirEntries >= 2
    /\ firstBad = 1 /\ TimesChecked(dirEntries) = 1 /\ ret = 1

Inv_C4 ==
    (pc = "returned" /\ Parses /\ \A i \in StmtLines : CleanStmt(StmtAt(i))) =>
        (issues = <<>> /\ result = "True")
Wit_C4 ==
    /\ pc = "returned" /\ Parses /\ Cardinality(StmtLines) >= 2
    /\ \A i \in StmtLines : CleanStmt(StmtAt(i))
    /\ \E i \in StmtLines : StmtAt(i).kind = "Expr"
    /\ \E i \in StmtLines : StmtAt(i).kind = "With" /\ StmtAt(i).body = TryBody

\* C5: every top-level bare call, for, while and try statement produces exactly one
\* issue, which carries the statement's 1-based line number; for for, while and try
\* it is the 'Top-level {kind} found' message with the statement's kind.
Inv_C5 ==
    (pc = "returned" /\ Parses) =>
        \A i \in StmtLines :
            (BareCall(StmtAt(i)) \/ StmtAt(i).kind \in {"For", "While", "Try"}) =>
                /\ Cardinality(IssuesAt(i)) = 1
                /\ StmtAt(i).kind \in {"For", "While", "Try"} =>
                       \A j \in IssuesAt(i) :
                           issues[j].tmpl = KindTmpl /\ issues[j].kind = StmtAt(i).kind
                /\ BareCall(StmtAt(i)) => \A j \in IssuesAt(i) : issues[j].tmpl = ExprTmpl
Wit_C5 ==
    /\ pc = "returned" /\ Parses /\ Len(issues) = 2
    /\ \E i \in StmtLines : BareCall(StmtAt(i))
    /\ \E i \in StmtLines : i = 2 /\ StmtAt(i).kind = "Try"

\* The source with the body of every statement emptied.
Stripped(lines) ==
    [i \in DOMAIN lines |->
        Line(lines[i].t, Stmt(lines[i].stmt.kind, lines[i].stmt.value, <<>>))]

\* C6: the issues of a file are those of the same file with every nested body
\* removed, and a top-level function definition, class definition or with-block
\* produces no issue whatever its body holds.
Inv_C6 ==
    (pc = "returned" /\ Parses) =>
        /\ issues = check_file(0, [kind |-> "text", lines |-> Stripped(cur.lines)]).issues
        /\ \A i \in StmtLines :
               StmtAt(i).kind \in {"FunctionDef", "AsyncFunctionDef", "ClassDef", "With"} =>
                   IssuesAt(i) = {}
Wit_C6 ==
    /\ pc = "returned"
    /\ cur.lines = <<Line("stmt", Stmt("FunctionDef", NoVal, CallBody))>>
    /\ issues = <<>> /\ result = "True"

\* C7: with no argument main() reports usage and returns 1 with no filesystem
\* operation performed; with a path that does not exist it reports the path and
\* returns 1; in both cases check_file is never called.
Inv_C7 ==
    /\ (pc = "done" /\ argc < 2) =>
           (ret = 1 /\ fsOps = 0 /\ checked = <<>> /\ emitted = <<UsageMsg>>)
    /\ (pc = "done" /\ argc >= 2 /\ target = "missing") =>
           (ret = 1 /\ checked = <<>> /\ emitted = <<NotFoundMsg>>)
Wit_C7 ==
    pc = "done" /\ argc >= 2 /\ target = "missing" /\ ret = 1 /\ emitted = <<NotFoundMsg>>

\* C8: on a directory with no discovered file main() logs the 'No Python files
\* found' warning, never calls check_file and returns 0.
Inv_C8 ==
    (pc = "done" /\ argc >= 2 /\ target = "dir" /\ dirEntries = 0) =>
        (ret = 0 /\ checked = <<>> /\ emitted = <<NoFilesMsg>>)
Wit_C8 ==
    pc = "done" /\ argc >= 2 /\ target = "dir" /\ dirEntries = 0 /\ ret = 0

\* C9: a flagged file is reported as the header, one warning line per issue in
\* issue order with ascending line numbers, then the best-practice line, with no
\* success line, and check_file returns False; a clean file is reported as the
\* success line alone and check_file returns True.
Inv_C9 ==
    (pc = "returned" /\ Parses) =>
        IF issues # <<>>
        THEN /\ Len(emitted) = Len(issues) + 2
             /\ emitted[1] = HeaderMsg(0)
             /\ \A j \in DOMAIN issues : emitted[j + 1] = IssueMsg(issues[j])
             /\ \A j, k \in DOMAIN issues :
                    j < k => emitted[j + 1].detail.lineno <= emitted[k + 1].detail.lineno
             /\ emitted[Len(emitted)] = BestPracticeMsg
             /\ \A j \in DOMAIN emitted : emitted[j].level # "SUCCESS"
             /\ result = "False"
        ELSE /\ emitted = <<SuccessMsg(0)>>
             /\ result = "True"
Wit_C9 ==
    /\ pc = "returned" /\ Parses /\ Len(issues) = 2
    /\ issues[1].lineno < issues[2].lineno
    /\ issues[1].tmpl # issues[2].tmpl

\* C10: a top-level statement of a kind the rule table does not name produces no
\* issue whatever it contains, and two statements of the same kind (for expression
\* statements: of the same constness of their value) get the same verdict.
Inv_C10 ==
    (pc = "returned" /\ Parses) =>
        /\ \A i \in StmtLines :
               StmtAt(i).kind \notin RuleTableKinds => IssuesAt(i) = {}
        /\ \A i, j \in StmtLines :
               (/\ StmtAt(i).kind = StmtAt(j).kind
                /\ (StmtAt(i).value.kind = "Constant") = (StmtAt(j).value.kind = "Constant"))
               => Cardinality(IssuesAt(i)) = Cardinality(IssuesAt(j))
Wit_C10 ==
    /\ pc = "returned" /\ Parses /\ issues = <<>>
    /\ \E i \in StmtLines : StmtAt(i).kind = "If" /\ StmtAt(i).body = CallBody
    /\ \E i \in StmtLines : StmtAt(i).kind = "TryStar"

====
